---------------------------- MODULE Spec2Model ----------------------------
(***************************************************************************)
(* A model of bin/sens.py: the read-simulation / recovery-statistics tool. *)
(*                                                                         *)
(* The module holds six specifications over one set of variables:          *)
(*   Spec        the pipeline of go(): driver, aligner process (the        *)
(*               environment) and the RecoveryChecker thread;              *)
(*   SpecFair    Spec with its three parties scheduled fairly;             *)
(*   SpecWire    the driver loop of go() seen at the level of the          *)
(*               characters it writes to the aligner's stdin;              *)
(*   SpecEdits   one call of Mutator.__addEdits;                           *)
(*   SpecCombos  Mutator.setupCombos (with IEEE-754 double arithmetic);    *)
(*   SpecSample  Mutator.setupCombos followed by one call of mutate.       *)
(* Each specification leaves the variables of the others at their idle     *)
(* values.                                                                 *)
(***************************************************************************)
EXTENDS Integers, Sequences, FiniteSets, TLC

VARIABLES
    \* ---- go(): the driver
    dpc,            \* position of the driver in go()
    x,              \* loop index of "for x in xrange(0, args.num_reads)"
    num_reads,      \* args.num_reads
    surprise,       \* args.surprise is not None
    sinkFh,         \* "none" | "open" | "closed"
    table,          \* rows printed by writeCumulativeRecoveryTable
    wire,           \* the characters written to pipe.stdin so far
    sent,           \* the reads (seq, mseq, sc) written so far
    \* ---- the aligner process and its two pipes
    stdinQ,         \* reads written to pipe.stdin and not yet consumed
    stdinClosed,    \* pipe.stdin.close() has happened
    stdoutQ,        \* lines in pipe.stdout not yet read by the collector
    stdoutClosed,   \* the aligner has closed its stdout
    nHdr,           \* header lines emitted by the aligner
    nRec,           \* alignment records emitted by the aligner
    \* ---- RecoveryChecker
    cpc,            \* "idle" | "run" | "done" | "crashed"
    res_by_sc,      \* dict: expected score -> <<correct, incorrect>>
    res_by_sc_len,  \* dict: <<expected score, read length>> -> <<c, i>>
    nSinkCalls,     \* number of invocations of self.sink
    nSinkWrites,    \* number of SURPRISE entries written by samSink
    \* ---- Mutator.__addEdits
    epc, orig_rd, nmm, nrdg, nrfg, maxAttempts, checkScore,
    attempts, slist, mmset, rdgset, rfgset, result,
    \* ---- Mutator.setupCombos
    spc, minIdNum, maxRdLen, ci, cj, ck,
    combos_by_nedit, combos_by_score, combos_min_score, combos_max_score,
    \* ---- Mutator.mutate
    mpc,            \* position in mutate()
    rd_len,         \* len(rd)
    sampling,       \* self.sampling
    max_elt, min_sc, max_sc,
    sc_drawn,       \* the value random.randint(min_sc, max_sc) returned
    sc_m,           \* the local sc
    min_sc_i, min_sc_f, rndi

goVars    == <<dpc, x, num_reads, surprise, sinkFh, table>>
wireVars  == <<wire, sent>>
pipeVars  == <<stdinQ, stdinClosed, stdoutQ, stdoutClosed, nHdr, nRec>>
checkVars == <<cpc, res_by_sc, res_by_sc_len, nSinkCalls, nSinkWrites>>
editVars  == <<epc, orig_rd, nmm, nrdg, nrfg, maxAttempts, checkScore,
               attempts, slist, mmset, rdgset, rfgset, result>>
sampleVars == <<mpc, rd_len, sampling, max_elt, min_sc, max_sc, sc_drawn,
                sc_m, min_sc_i, min_sc_f, rndi>>
comboVars == <<spc, minIdNum, maxRdLen, ci, cj, ck, combos_by_nedit,
               combos_by_score, combos_min_score, combos_max_score,
               sampleVars>>
vars == <<goVars, wireVars, pipeVars, checkVars, editVars, comboVars>>

-----------------------------------------------------------------------------
(* Bounds of the model *)

MaxReads == 2       \* largest args.num_reads
MaxHeaders == 1     \* largest number of '@' lines the aligner emits
PipeCap == 1        \* capacity of each pipe, in reads / lines

(* Program constants *)

MmpMax == 6         \* scoring.mmp[1]
RdgOpen == 5        \* scoring.rdg[0]
RdgExt == 3         \* scoring.rdg[1]
RfgOpen == 5        \* scoring.rfg[0]
RfgExt == 3         \* scoring.rfg[1]
SurpriseMin == -6   \* samSink: sc_ex >= -6

-----------------------------------------------------------------------------
(* Idle values of each group of variables *)

IdleGo ==
    /\ dpc = "idle" /\ x = 0 /\ num_reads = 0 /\ surprise = FALSE
    /\ sinkFh = "none" /\ table = <<>>

IdleWire == wire = <<>> /\ sent = <<>>

IdlePipe ==
    /\ stdinQ = 0 /\ stdinClosed = FALSE /\ stdoutQ = <<>>
    /\ stdoutClosed = FALSE /\ nHdr = 0 /\ nRec = 0

IdleCheck ==
    /\ cpc = "idle" /\ res_by_sc = <<>> /\ res_by_sc_len = <<>>
    /\ nSinkCalls = 0 /\ nSinkWrites = 0

IdleEdits ==
    /\ epc = "idle" /\ orig_rd = <<>> /\ nmm = 0 /\ nrdg = 0 /\ nrfg = 0
    /\ maxAttempts = 0 /\ checkScore = FALSE /\ attempts = 0
    /\ slist = <<>> /\ mmset = {} /\ rdgset = {} /\ rfgset = {}
    /\ result = <<>>

IdleSample ==
    /\ mpc = "idle" /\ rd_len = 0 /\ sampling = "score"
    /\ max_elt = 0 /\ min_sc = 0 /\ max_sc = 0
    /\ sc_drawn = 0 /\ sc_m = 0
    /\ min_sc_i = 0 /\ min_sc_f = 0 /\ rndi = 0

IdleCombos ==
    /\ spc = "idle" /\ minIdNum = 0 /\ maxRdLen = 1
    /\ ci = 0 /\ cj = 0 /\ ck = 0
    /\ combos_by_nedit = <<>> /\ combos_by_score = <<>>
    /\ combos_min_score = <<>> /\ combos_max_score = <<>>
    /\ IdleSample

-----------------------------------------------------------------------------
(* RecoveryChecker: the lines of the aligner's output *)

\* The integers that can follow '_' in a read name (the wire form -score).
WireScores == {6, 7}

\* A line of SAM as run() parses it.  hdr: the line starts with '@';
\* ex: the integer after '_' in field 0; flags: field 1; as_tag: <<v>> when
\* the line carries AS:i:v and <<>> when it carries none; rdlen: the length
\* of field 9.
HeaderLine == [hdr |-> TRUE, ex |-> 0, flags |-> 0, as_tag |-> <<>>, rdlen |-> 0]

RecordLines ==
    { [hdr |-> FALSE, ex |-> e, flags |-> f, as_tag |-> a, rdlen |-> n] :
        e \in WireScores, f \in {0, 4, 16},
        a \in {<<>>, <<-6>>, <<-7>>}, n \in {1, 2} }

\* (int(flags) & 4) == 0
Bit4Clear(flags) == (flags \div 4) % 2 = 0

\* dict lookup with the [0, 0] default of lines 555-556 and 558-559
Get(d, k) == IF k \in DOMAIN d THEN d[k] ELSE <<0, 0>>

\* Bump without the "if key not in dict" test: the entry is reset each time
BumpAlwaysInit(d, k, succ) ==
    [kk \in DOMAIN d \cup {k} |->
        IF kk = k THEN IF succ THEN <<1, 0>> ELSE <<0, 1>> ELSE d[kk]]

\* d[k][0 if succ else 1] += 1, after the "not in" initialisation
Bump(d, k, succ) ==
    [kk \in DOMAIN d \cup {k} |->
        IF kk = k
        THEN IF succ THEN <<Get(d, k)[1] + 1, Get(d, k)[2]>>
                     ELSE <<Get(d, k)[1], Get(d, k)[2] + 1>>
        ELSE d[kk]]

\* Succ with a strict comparison of the scores
SuccStrict(l) == Bit4Clear(l.flags) /\ l.as_tag # <<>> /\ l.as_tag[1] > -l.ex

\* succ of run(): the read aligned and as_i >= sc_ex
Succ(l) == Bit4Clear(l.flags) /\ l.as_tag # <<>> /\ l.as_tag[1] >= -l.ex

\* mat.group(1) on a failed search: an aligned record without an AS:i tag
\* raises AttributeError and ends the thread
Raises(l) == Bit4Clear(l.flags) /\ l.as_tag = <<>>

\* as_i of run(): <<>> stands for None
AsI(l) == IF Bit4Clear(l.flags) THEN l.as_tag ELSE <<>>

\* SamSinkWrites without the test of the expected score
SamSinkWritesAnyScore(sc_ex, as_i) == as_i = <<>> \/ as_i[1] < sc_ex

\* the condition of samSink under which it writes an entry
SamSinkWrites(sc_ex, as_i) ==
    (as_i = <<>> \/ as_i[1] < sc_ex) /\ sc_ex >= SurpriseMin


-----------------------------------------------------------------------------
(* RecoveryChecker.run: one iteration of "for l in self.stdout" *)

RunLine ==
    /\ cpc = "run"
    /\ stdoutQ # <<>>
    /\ LET l == Head(stdoutQ)
           sc_ex == -l.ex
           succ == Succ(l)
           as_i == AsI(l)
       IN  /\ stdoutQ' = Tail(stdoutQ)
           /\ IF l.hdr
              THEN \* if l.startswith('@'): continue
                   UNCHANGED checkVars
              ELSE IF Raises(l)
              THEN /\ cpc' = "crashed"
                   /\ UNCHANGED <<res_by_sc, res_by_sc_len, nSinkCalls, nSinkWrites>>
              ELSE /\ res_by_sc' = Bump(res_by_sc, sc_ex, succ)
                   /\ res_by_sc_len' = Bump(res_by_sc_len, <<sc_ex, l.rdlen>>, succ)
                   /\ IF surprise
                      THEN \* self.sink(sc_ex, as_i, l)
                           /\ nSinkCalls' = nSinkCalls + 1
                           /\ IF SamSinkWrites(sc_ex, as_i)
                              THEN IF sinkFh = "open"
                                   THEN cpc' = cpc /\ nSinkWrites' = nSinkWrites + 1
                                   ELSE \* write to a closed file: ValueError
                                        cpc' = "crashed" /\ nSinkWrites' = nSinkWrites
                              ELSE cpc' = cpc /\ nSinkWrites' = nSinkWrites
                      ELSE UNCHANGED <<cpc, nSinkCalls, nSinkWrites>>
    /\ UNCHANGED <<stdinQ, stdinClosed, stdoutClosed, nHdr, nRec>>
    /\ UNCHANGED <<goVars, wireVars, editVars, comboVars>>

\* the iteration over self.stdout ends at end-of-stream
RunEof ==
    /\ cpc = "run"
    /\ stdoutQ = <<>>
    /\ stdoutClosed
    /\ cpc' = "done"
    /\ UNCHANGED <<res_by_sc, res_by_sc_len, nSinkCalls, nSinkWrites>>
    /\ UNCHANGED <<goVars, wireVars, pipeVars, editVars, comboVars>>

-----------------------------------------------------------------------------
(* The aligner process started by Popen: the environment of go() *)

\* a '@' header line
AlignerHeader ==
    /\ dpc # "idle"
    /\ ~stdoutClosed
    /\ nHdr < MaxHeaders
    /\ nRec = 0
    /\ Len(stdoutQ) < PipeCap
    /\ stdoutQ' = Append(stdoutQ, HeaderLine)
    /\ nHdr' = nHdr + 1
    /\ UNCHANGED <<stdinQ, stdinClosed, stdoutClosed, nRec>>
    /\ UNCHANGED <<goVars, wireVars, checkVars, editVars, comboVars>>

\* one read consumed, one record emitted (--reorder: in submission order)
AlignerRecord ==
    /\ ~stdoutClosed
    /\ stdinQ > 0
    /\ Len(stdoutQ) < PipeCap
    /\ \E l \in RecordLines : stdoutQ' = Append(stdoutQ, l)
    /\ stdinQ' = stdinQ - 1
    /\ nRec' = nRec + 1
    /\ UNCHANGED <<stdinClosed, stdoutClosed, nHdr>>
    /\ UNCHANGED <<goVars, wireVars, checkVars, editVars, comboVars>>

\* end of input seen: the aligner closes its output and exits
AlignerExit ==
    /\ ~stdoutClosed
    /\ stdinClosed
    /\ stdinQ = 0
    /\ stdoutClosed' = TRUE
    /\ UNCHANGED <<stdinQ, stdinClosed, stdoutQ, nHdr, nRec>>
    /\ UNCHANGED <<goVars, wireVars, checkVars, editVars, comboVars>>

-----------------------------------------------------------------------------
(* The output tables *)

SetMax(S) == CHOOSE m \in S : \A e \in S : e <= m
SetMin(S) == CHOOSE m \in S : \A e \in S : m <= e

\* writeRecoveryTable: one row <<sc, cor, incor>> per key, ascending
RECURSIVE FlatRows(_, _)
FlatRows(res, keys) ==
    IF keys = {} THEN <<>>
    ELSE LET sc == SetMin(keys)
         IN  <<<<sc, res[sc][1], res[sc][2]>>>> \o FlatRows(res, keys \ {sc})

writeRecoveryTable(res) == FlatRows(res, DOMAIN res)

\* writeCumulativeRecoveryTable: the loop from max(keys) down to min(keys);
\* each row is printed before the counts of its own score are added
RECURSIVE CumRows(_, _, _, _, _)
CumRows(res, sc, lo, cor_cum, incor_cum) ==
    IF sc < lo THEN <<>>
    ELSE LET ci0 == Get(res, sc)
         IN  <<<<sc, cor_cum, incor_cum>>>>
             \o CumRows(res, sc - 1, lo, cor_cum + ci0[1], incor_cum + ci0[2])

writeCumulativeRecoveryTable(res) ==
    CumRows(res, SetMax(DOMAIN res), SetMin(DOMAIN res), 0, 0)

-----------------------------------------------------------------------------
(* go(): the driver *)

\* Popen ... samcheck.start()
GoStart ==
    /\ dpc = "start"
    /\ sinkFh' = IF surprise THEN "open" ELSE "none"
    /\ cpc' = "run"
    /\ dpc' = "write"
    /\ UNCHANGED <<x, num_reads, surprise, table>>
    /\ UNCHANGED <<res_by_sc, res_by_sc_len, nSinkCalls, nSinkWrites>>
    /\ UNCHANGED <<wireVars, pipeVars, editVars, comboVars>>

\* one iteration of the loop: a read is written to pipe.stdin (the write
\* blocks while the pipe is full)
GoWrite ==
    /\ dpc = "write"
    /\ x < num_reads
    /\ stdinQ < PipeCap
    /\ stdinQ' = stdinQ + 1
    /\ x' = x + 1
    /\ UNCHANGED <<dpc, num_reads, surprise, sinkFh, table>>
    /\ UNCHANGED <<stdinClosed, stdoutQ, stdoutClosed, nHdr, nRec>>
    /\ UNCHANGED <<wireVars, checkVars, editVars, comboVars>>

\* an iteration that never reaches the write: cg.next() raises (randint on
\* an empty range in Simulator.sim or in __addEdits) and go() is left by the
\* exception, or cg.next() never returns (a drawing loop of __addEdits that
\* wants more positions than the read has)
GoNextFails ==
    /\ dpc = "write"
    /\ x < num_reads
    /\ dpc' \in {"raised", "hung"}
    /\ UNCHANGED <<x, num_reads, surprise, sinkFh, table>>
    /\ UNCHANGED <<wireVars, pipeVars, checkVars, editVars, comboVars>>

\* pipe.stdin.close()
GoClose ==
    /\ dpc = "write"
    /\ x >= num_reads
    /\ stdinClosed' = TRUE
    /\ dpc' = "join"
    /\ UNCHANGED <<x, num_reads, surprise, sinkFh, table>>
    /\ UNCHANGED <<stdinQ, stdoutQ, stdoutClosed, nHdr, nRec>>
    /\ UNCHANGED <<wireVars, checkVars, editVars, comboVars>>

\* GoJoin that does not wait for the thread
GoJoinNoWait ==
    /\ dpc = "join"
    /\ dpc' = "closeSink"
    /\ UNCHANGED <<x, num_reads, surprise, sinkFh, table>>
    /\ UNCHANGED <<wireVars, pipeVars, checkVars, editVars, comboVars>>

\* samcheck.join(): returns once the thread has ended
GoJoin ==
    /\ dpc = "join"
    /\ cpc \in {"done", "crashed"}
    /\ dpc' = "closeSink"
    /\ UNCHANGED <<x, num_reads, surprise, sinkFh, table>>
    /\ UNCHANGED <<wireVars, pipeVars, checkVars, editVars, comboVars>>

\* if args.surprise is not None: sinkFh.close()
GoCloseSink ==
    /\ dpc = "closeSink"
    /\ sinkFh' = IF surprise THEN "closed" ELSE sinkFh
    /\ dpc' = "report"
    /\ UNCHANGED <<x, num_reads, surprise, table>>
    /\ UNCHANGED <<wireVars, pipeVars, checkVars, editVars, comboVars>>

\* writeCumulativeRecoveryTable(samcheck.res_by_sc, sys.stdout); max() of
\* an empty key list raises ValueError
GoReport ==
    /\ dpc = "report"
    /\ IF DOMAIN res_by_sc = {}
       THEN dpc' = "crashed" /\ table' = table
       ELSE dpc' = "done" /\ table' = writeCumulativeRecoveryTable(res_by_sc)
    /\ UNCHANGED <<x, num_reads, surprise, sinkFh>>
    /\ UNCHANGED <<wireVars, pipeVars, checkVars, editVars, comboVars>>

Init ==
    /\ dpc = "start" /\ x = 0 /\ num_reads \in 0..MaxReads
    /\ surprise \in BOOLEAN /\ sinkFh = "none" /\ table = <<>>
    /\ IdleWire /\ IdlePipe /\ IdleCheck /\ IdleEdits /\ IdleCombos

Next ==
    \/ GoStart \/ GoWrite \/ GoNextFails \/ GoClose \/ GoJoin
    \/ GoCloseSink \/ GoReport
    \/ AlignerHeader \/ AlignerRecord \/ AlignerExit
    \/ RunLine \/ RunEof

Spec == Init /\ [][Next]_vars

-----------------------------------------------------------------------------
(* Properties of the Recovery Collector and of go() *)

Terminated == cpc \in {"done", "crashed"}

\* the step is one iteration of run() over a well-formed record: the head
\* of the aligner's output is consumed, it is no header, and it carries an
\* AS:i tag if its flags say it aligned
TalliesRecord ==
    /\ cpc = "run"
    /\ stdoutQ # <<>>
    /\ stdoutQ' = Tail(stdoutQ)
    /\ ~Head(stdoutQ).hdr
    /\ ~(Head(stdoutQ).flags % 8 < 4 /\ Head(stdoutQ).as_tag = <<>>)

\* the record is recovered: flag bit 4 clear and AS:i >= expected score
Recovered(l) ==
    /\ l.flags % 8 < 4
    /\ l.as_tag # <<>>
    /\ l.as_tag[1] >= -l.ex

\* d2 is d with exactly one counter of entry k raised by one
OneMore(d, d2, k, correct) ==
    /\ DOMAIN d2 = DOMAIN d \cup {k}
    /\ \A kk \in DOMAIN d \ {k} : d2[kk] = d[kk]
    /\ d2[k] = IF correct THEN <<Get(d, k)[1] + 1, Get(d, k)[2]>>
                          ELSE <<Get(d, k)[1], Get(d, k)[2] + 1>>

\* C1: every record consumed by run() raises exactly one counter by one in
\* the entry of its expected score and in the entry of its (expected score,
\* read length): the correct counter iff flag bit 4 is clear and AS:i >=
\* expected score, otherwise the incorrect counter; no other entry changes.
C1_OneCounterPerRecord ==
    [][TalliesRecord =>
        LET l == Head(stdoutQ)
        IN  /\ OneMore(res_by_sc, res_by_sc', -l.ex, Recovered(l))
            /\ OneMore(res_by_sc_len, res_by_sc_len', <<-l.ex, l.rdlen>>,
                       Recovered(l))]_vars

C1_Witness ==
    \E k \in DOMAIN res_by_sc : res_by_sc[k][1] >= 1 /\ res_by_sc[k][2] >= 1

RECURSIVE TallySum(_, _)
TallySum(d, keys) ==
    IF keys = {} THEN 0
    ELSE LET k == CHOOSE kk \in keys : TRUE
         IN  d[k][1] + d[k][2] + TallySum(d, keys \ {k})

\* C2: once the collector has drained its stream to the end, the counters
\* of the per-score tally add up to the number of records in the stream.
C2_TallySumIsN ==
    cpc = "done" => TallySum(res_by_sc, DOMAIN res_by_sc) = nRec

C2_Witness ==
    cpc = "done" /\ nRec >= 2 /\ nHdr >= 1 /\ Cardinality(DOMAIN res_by_sc) = 1

\* a failed record whose expected score is at least -6
QualifyingFailure(l) == ~Recovered(l) /\ -l.ex >= -6

\* C3 as stated: the collector invokes the sink only for qualifying
\* failures.
C3_SinkCalledOnlyForFailures ==
    [][nSinkCalls' # nSinkCalls =>
        stdoutQ # <<>> /\ QualifyingFailure(Head(stdoutQ))]_vars

\* C3 as amended: with a sink supplied the collector invokes it once for
\* every record it tallies, and without a sink never; the sink that go()
\* installs (samSink) writes an entry exactly for the qualifying failures.
C3_SinkWritesOnlyForFailures ==
    [][/\ TalliesRecord =>
            /\ nSinkCalls' = nSinkCalls + (IF surprise THEN 1 ELSE 0)
            /\ nSinkWrites' = nSinkWrites +
                 (IF surprise /\ QualifyingFailure(Head(stdoutQ)) THEN 1 ELSE 0)
       /\ ~TalliesRecord =>
            nSinkCalls' = nSinkCalls /\ nSinkWrites' = nSinkWrites]_vars

C3_Witness == nSinkWrites >= 1 /\ nSinkCalls > nSinkWrites

\* C4: the row of the cumulative table at the best observed score carries
\* the counts of the flat table at that score.
C4_BestRowEqualsFlat ==
    dpc = "done" =>
        LET best == SetMax(DOMAIN res_by_sc)
            flat == writeRecoveryTable(res_by_sc)
        IN  \A i \in 1..Len(table) :
                table[i][1] = best =>
                    \E j \in 1..Len(flat) : flat[j] = table[i]

\* C6: the driver closes the aligner's input only after the last read is
\* written, and closes the sink and reads the tallies only after the
\* collector thread has ended.
C6_JoinBeforeRead ==
    /\ stdinClosed => x = num_reads
    /\ dpc \in {"closeSink", "report", "done", "crashed"} =>
            stdinClosed /\ Terminated
    /\ sinkFh = "closed" => Terminated
    /\ table # <<>> => Terminated

C6_Witness ==
    dpc = "done" /\ cpc = "done" /\ sinkFh = "closed" /\ nSinkWrites >= 1

-----------------------------------------------------------------------------
(* go(): the driver loop at the level of the characters it writes *)

MaxWireReads == 2   \* largest args.num_reads in SpecWire
MaxWireLen == 2     \* longest read in SpecWire

NL == "\n"

\* the sequences over S of length lo..hi
SeqsOf(S, lo, hi) == UNION { [1..n -> S] : n \in lo..hi }

WireReads == SeqsOf({"A", "C"}, 1, MaxWireLen)

\* the scores mutate() hands back in SpecWire (penalties, so non-negative)
WireSc == {0, MmpMax, MmpMax + RdgOpen + RdgExt}

Digit(d) == CASE d = 0 -> "0" [] d = 1 -> "1" [] d = 2 -> "2" [] d = 3 -> "3"
              [] d = 4 -> "4" [] d = 5 -> "5" [] d = 6 -> "6" [] d = 7 -> "7"
              [] d = 8 -> "8" [] d = 9 -> "9"

\* str(sc) for sc >= 0
RECURSIVE Str(_)
Str(n) == IF n < 10 THEN <<Digit(n)>> ELSE Str(n \div 10) \o <<Digit(n % 10)>>

\* nm = "_".join([seq, str(sc)])
ReadName(seq, sc) == seq \o <<"_">> \o Str(sc)

\* ">%s\n%s" % (nm, mseq)
FastaRecord(seq, mseq, sc) == <<">">> \o ReadName(seq, sc) \o <<NL>> \o mseq

\* one iteration of the loop: cg.next() and pipe.stdin.write(...)
GoWriteText ==
    /\ dpc = "write"
    /\ x < num_reads
    /\ \E seq \in WireReads, mseq \in WireReads, sc \in WireSc :
          /\ wire' = wire \o FastaRecord(seq, mseq, sc)
          /\ sent' = Append(sent, <<seq, mseq, sc>>)
    /\ x' = x + 1
    /\ UNCHANGED <<dpc, num_reads, surprise, sinkFh, table>>
    /\ UNCHANGED <<pipeVars, checkVars, editVars, comboVars>>

\* pipe.stdin.close()
GoCloseText ==
    /\ dpc = "write"
    /\ x >= num_reads
    /\ stdinClosed' = TRUE
    /\ dpc' = "join"
    /\ UNCHANGED <<x, num_reads, surprise, sinkFh, table>>
    /\ UNCHANGED <<stdinQ, stdoutQ, stdoutClosed, nHdr, nRec>>
    /\ UNCHANGED <<wireVars, checkVars, editVars, comboVars>>

InitWire ==
    /\ dpc = "write" /\ x = 0 /\ num_reads \in 1..MaxWireReads
    /\ surprise = FALSE /\ sinkFh = "none" /\ table = <<>>
    /\ IdleWire /\ IdlePipe /\ IdleCheck /\ IdleEdits /\ IdleCombos

NextWire == GoWriteText \/ GoCloseText

SpecWire == InitWire /\ [][NextWire]_vars

\* the lines of a character stream: each line ends at a newline, the last
\* one at the end of the stream
RECURSIVE LinesFrom(_, _)
LinesFrom(cs, cur) ==
    IF cs = <<>> THEN (IF cur = <<>> THEN <<>> ELSE <<cur>>)
    ELSE IF Head(cs) = NL THEN <<cur>> \o LinesFrom(Tail(cs), <<>>)
    ELSE LinesFrom(Tail(cs), Append(cur, Head(cs)))

\* C5: the stream sent to the aligner is N records of two lines each: the
\* header of each read on a line of its own, followed by a line holding
\* only that read's mutated sequence.
C5_TwoLinesPerRead ==
    stdinClosed =>
        LET ls == LinesFrom(wire, <<>>)
        IN  /\ Len(ls) = 2 * num_reads
            /\ \A k \in 1..num_reads :
                  /\ ls[2 * k - 1] = <<">">> \o sent[k][1] \o <<"_">> \o Str(sent[k][3])
                  /\ ls[2 * k] = sent[k][2]

-----------------------------------------------------------------------------
(* Mutator.__addEdits *)

MaxLen == 2         \* longest orig_rd
MaxEdit == 2        \* largest nmm, nrdg, nrfg
MaxTries == 2       \* largest maxAttempts

Bases == {"A", "C", "G", "T"}

\* the reads handed to __addEdits: the prefixes of a reference
RefBase(i) == CASE i % 4 = 1 -> "A" [] i % 4 = 2 -> "C"
                [] i % 4 = 3 -> "G" [] OTHER -> "T"
OrigReads == { [i \in 1..n |-> RefBase(i)] : n \in 0..MaxLen }

\* addCombo: the score of a combination of edits
ComboScore(i, j, k) ==
    i * MmpMax + j * (RdgOpen + RdgExt) + k * (RfgOpen + RfgExt)

\* the argument sc of __addEdits, as mutate() passes it
Sc == ComboScore(nmm, nrdg, nrfg)

\* MyMutableString(s): one slot per character; positions are 0-based in the
\* code and slot p of the code is slist[p + 1] here
MyMutableString(s) == [i \in 1..Len(s) |-> <<s[i]>>]

\* MyMutableString.__str__
RECURSIVE Join(_)
Join(sl) == IF sl = <<>> THEN <<>> ELSE Head(sl) \o Join(Tail(sl))

\* sorted(list(rdgset) + list(rfgset), reverse=True): a position in both
\* sets occurs twice
RECURSIVE GapList(_, _, _)
GapList(p, rdg, rfg) ==
    IF p < 0 THEN <<>>
    ELSE (IF p \in rdg THEN <<p>> ELSE <<>>)
         \o (IF p \in rfg THEN <<p>> ELSE <<>>)
         \o GapList(p - 1, rdg, rfg)

\* the body of "for gapi in sorted(...)": cs[t] is the base drawn in
\* iteration t
RECURSIVE GapPass(_, _, _, _, _, _)
GapPass(sl, gl, t, cs, rdg, rfg) ==
    IF t > Len(gl) THEN sl
    ELSE LET gapi == gl[t]
             \* rd.delete(gapi)
             s1 == IF gapi \in rdg THEN [sl EXCEPT ![gapi + 1] = <<>>] ELSE sl
             \* rd.set(gapi, c + rd.get(gapi))
             s2 == IF gapi \in rfg
                   THEN [s1 EXCEPT ![gapi + 1] = <<cs[t]>> \o s1[gapi + 1]]
                   ELSE s1
         IN  GapPass(s2, gl, t + 1, cs, rdg, rfg)

Min2(a, b) == IF a <= b THEN a ELSE b

\* global_align.globalAlign(rdstr, rf, mismatch cost, read-gap cost,
\* ref-gap cost): the cost of the cheapest global alignment
globalAlign(rdstr, rf) ==
    LET rdgPen == RdgOpen + RdgExt
        rfgPen == RfgOpen + RfgExt
        D[i \in 0..Len(rdstr), j \in 0..Len(rf)] ==
            IF i = 0 THEN j * rdgPen
            ELSE IF j = 0 THEN i * rfgPen
            ELSE Min2(D[i - 1, j - 1]
                        + (IF rdstr[i] # rf[j] THEN MmpMax ELSE 0),
                      Min2(D[i - 1, j] + rfgPen, D[i, j - 1] + rdgPen))
    IN  D[Len(rdstr), Len(rf)]

editIn == <<orig_rd, nmm, nrdg, nrfg, maxAttempts, checkScore>>

\* AttemptStart giving up one attempt early (attempts >= maxAttempts)
AttemptStartOffByOne ==
    /\ epc = "top"
    /\ attempts' = attempts + 1
    /\ slist' = MyMutableString(orig_rd)
    /\ IF attempts + 1 >= maxAttempts
       THEN /\ result' = <<orig_rd, FALSE>>
            /\ epc' = "returned"
            /\ UNCHANGED <<mmset, rdgset, rfgset>>
       ELSE /\ mmset' = {} /\ rdgset' = {} /\ rfgset' = {}
            /\ epc' = "draw"
            /\ UNCHANGED result
    /\ UNCHANGED editIn
    /\ UNCHANGED <<goVars, wireVars, pipeVars, checkVars, comboVars>>

\* the top of "while True": a fresh copy of the read, the attempt counted
AttemptStart ==
    /\ epc = "top"
    /\ attempts' = attempts + 1
    /\ slist' = MyMutableString(orig_rd)
    /\ IF attempts + 1 > maxAttempts
       THEN /\ result' = <<orig_rd, FALSE>>
            /\ epc' = "returned"
            /\ UNCHANGED <<mmset, rdgset, rfgset>>
       ELSE /\ mmset' = {} /\ rdgset' = {} /\ rfgset' = {}
            /\ epc' = "draw"
            /\ UNCHANGED result
    /\ UNCHANGED editIn
    /\ UNCHANGED <<goVars, wireVars, pipeVars, checkVars, comboVars>>

\* "while len(mmset) < nmm: mmset.add(random.randint(0, len(orig_rd)-1))".
\* A draw of a position already in the set leaves the state as it is, so
\* only the draws of new positions are steps; when no new position is left
\* the loop spins and the model has no step.  randint raises ValueError on
\* an empty range.
DrawMm ==
    /\ epc = "draw"
    /\ Cardinality(mmset) < nmm
    /\ IF Len(orig_rd) - 1 < 0
       THEN epc' = "raised" /\ mmset' = mmset
       ELSE /\ \E p \in (0..(Len(orig_rd) - 1)) \ mmset : mmset' = mmset \cup {p}
            /\ epc' = epc
    /\ UNCHANGED <<attempts, slist, rdgset, rfgset, result>>
    /\ UNCHANGED editIn
    /\ UNCHANGED <<goVars, wireVars, pipeVars, checkVars, comboVars>>

\* "while len(rdgset) < nrdg: rdgset.add(random.randint(0, len(orig_rd)-1))"
DrawRdg ==
    /\ epc = "draw"
    /\ Cardinality(mmset) >= nmm
    /\ Cardinality(rdgset) < nrdg
    /\ IF Len(orig_rd) - 1 < 0
       THEN epc' = "raised" /\ rdgset' = rdgset
       ELSE /\ \E p \in (0..(Len(orig_rd) - 1)) \ rdgset : rdgset' = rdgset \cup {p}
            /\ epc' = epc
    /\ UNCHANGED <<attempts, slist, mmset, rfgset, result>>
    /\ UNCHANGED editIn
    /\ UNCHANGED <<goVars, wireVars, pipeVars, checkVars, comboVars>>

\* "while len(rfgset) < nrfg: rfgset.add(random.randint(1, len(orig_rd)-1))"
DrawRfg ==
    /\ epc = "draw"
    /\ Cardinality(mmset) >= nmm
    /\ Cardinality(rdgset) >= nrdg
    /\ Cardinality(rfgset) < nrfg
    /\ IF Len(orig_rd) - 1 < 1
       THEN epc' = "raised" /\ rfgset' = rfgset
       ELSE /\ \E p \in (1..(Len(orig_rd) - 1)) \ rfgset : rfgset' = rfgset \cup {p}
            /\ epc' = epc
    /\ UNCHANGED <<attempts, slist, mmset, rdgset, result>>
    /\ UNCHANGED editIn
    /\ UNCHANGED <<goVars, wireVars, pipeVars, checkVars, comboVars>>

\* "for mm in mmset": each chosen slot gets a base other than its own
ApplyMismatches ==
    /\ epc = "draw"
    /\ Cardinality(mmset) >= nmm
    /\ Cardinality(rdgset) >= nrdg
    /\ Cardinality(rfgset) >= nrfg
    /\ \E c \in [mmset -> Bases] :
          /\ \A mm \in mmset : <<c[mm]>> # slist[mm + 1]
          /\ slist' = [i \in 1..Len(slist) |->
                          IF (i - 1) \in mmset THEN <<c[i - 1]>> ELSE slist[i]]
    /\ epc' = "gaps"
    /\ UNCHANGED <<attempts, mmset, rdgset, rfgset, result>>
    /\ UNCHANGED editIn
    /\ UNCHANGED <<goVars, wireVars, pipeVars, checkVars, comboVars>>

\* ApplyGaps without rd.delete(gapi): read gaps remove nothing
ApplyGapsNoDelete ==
    /\ epc = "gaps"
    /\ LET gl == GapList(Len(orig_rd) - 1, rdgset, rfgset)
       IN  \E cs \in [1..Len(gl) -> Bases] :
              slist' = GapPass(slist, gl, 1, cs, {}, rfgset)
    /\ epc' = "check"
    /\ UNCHANGED <<attempts, mmset, rdgset, rfgset, result>>
    /\ UNCHANGED editIn
    /\ UNCHANGED <<goVars, wireVars, pipeVars, checkVars, comboVars>>

\* "for gapi in sorted(list(rdgset) + list(rfgset), reverse=True)"
ApplyGaps ==
    /\ epc = "gaps"
    /\ LET gl == GapList(Len(orig_rd) - 1, rdgset, rfgset)
       IN  \E cs \in [1..Len(gl) -> Bases] :
              slist' = GapPass(slist, gl, 1, cs, rdgset, rfgset)
    /\ epc' = "check"
    /\ UNCHANGED <<attempts, mmset, rdgset, rfgset, result>>
    /\ UNCHANGED editIn
    /\ UNCHANGED <<goVars, wireVars, pipeVars, checkVars, comboVars>>

\* "if checkScore: ... if scg == sc: break ... else: break" and the return
CheckScore ==
    /\ epc = "check"
    /\ IF checkScore /\ globalAlign(Join(slist), orig_rd) # Sc
       THEN epc' = "top" /\ UNCHANGED result
       ELSE epc' = "returned" /\ result' = <<Join(slist), TRUE>>
    /\ UNCHANGED <<attempts, slist, mmset, rdgset, rfgset>>
    /\ UNCHANGED editIn
    /\ UNCHANGED <<goVars, wireVars, pipeVars, checkVars, comboVars>>

InitEdits ==
    /\ epc = "top"
    /\ orig_rd \in OrigReads
    /\ nmm \in 0..MaxEdit /\ nrdg \in 0..MaxEdit /\ nrfg \in 0..MaxEdit
    /\ maxAttempts \in 0..MaxTries
    /\ checkScore \in BOOLEAN
    /\ attempts = 0 /\ slist = <<>>
    /\ mmset = {} /\ rdgset = {} /\ rfgset = {} /\ result = <<>>
    /\ IdleGo /\ IdleWire /\ IdlePipe /\ IdleCheck /\ IdleCombos

NextEdits ==
    \/ AttemptStart \/ DrawMm \/ DrawRdg \/ DrawRfg
    \/ ApplyMismatches \/ ApplyGaps \/ CheckScore

SpecEdits == InitEdits /\ [][NextEdits]_vars

-----------------------------------------------------------------------------
(* Properties of the Edit Applier *)

ZeroCombo == nmm = 0 /\ nrdg = 0 /\ nrfg = 0

EditsEnded == epc \in {"returned", "raised"}

\* C7: the zero-edit combo (target score 0) applied with maxAttempts >= 1
\* returns the sequence unchanged with success = true, with verification
\* off and on.
C7_ZeroComboIsIdentity ==
    (ZeroCombo /\ maxAttempts >= 1) =>
        /\ Sc = 0
        /\ epc # "raised"
        /\ epc = "returned" => result = <<orig_rd, TRUE>>

C7_Witness ==
    /\ ZeroCombo /\ checkScore /\ maxAttempts = 1 /\ Len(orig_rd) >= 2
    /\ epc = "returned" /\ result = <<orig_rd, TRUE>>

\* C8: a call with verification on returns after starting at most
\* maxAttempts attempts: every attempt completes (the draws of distinct
\* positions never spin), success = true is returned only for an attempt
\* whose oracle score is the target score, and after maxAttempts failed
\* attempts the result is (orig_rd, false).
C8_ReturnsWithinMaxAttempts ==
    checkScore =>
        /\ EditsEnded \/ ENABLED NextEdits
        /\ epc \in {"draw", "gaps", "check"} => attempts <= maxAttempts
        /\ (epc = "returned" /\ result[2]) =>
                globalAlign(result[1], orig_rd) = Sc
        /\ (epc = "returned" /\ ~result[2]) =>
                result[1] = orig_rd /\ attempts = maxAttempts + 1

\* C10: in every accepted attempt the three sets of positions have exactly
\* nmm, nrdg and nrfg elements and no mismatch position is also a read-gap
\* position.
C10_AcceptedEditsDoNotCollide ==
    (epc = "returned" /\ result[2]) =>
        /\ Cardinality(mmset) = nmm
        /\ Cardinality(rdgset) = nrdg
        /\ Cardinality(rfgset) = nrfg
        /\ mmset \cap rdgset = {}

-----------------------------------------------------------------------------
(* Python floats: IEEE-754 doubles, round-to-nearest-even.                 *)
(* A non-negative double is held exactly, as the sequence of its bits in   *)
(* fixed point: IntBits bits before the point and FracBits after it, most  *)
(* significant first.  Every operation computes the exact result and       *)
(* rounds it to MantBits significant bits.                                 *)

MantBits == 53      \* significand of a double
IntBits == 5        \* bits before the point
FracBits == 60      \* bits after the point

W == IntBits + FracBits

RECURSIVE Pow2(_)
Pow2(n) == IF n = 0 THEN 1 ELSE 2 * Pow2(n - 1)

\* f as an explicit table: f is computed once, at every argument
Table(f) == CHOOSE r \in {f} : r = f

\* float(n) for a small integer n >= 0
IntToBits(n) ==
    Table([k \in 1..W |->
              IF k <= IntBits THEN (n \div Pow2(IntBits - k)) % 2 ELSE 0])

\* a + b, exact: the carry into bit k comes from the nearest lower bit
\* where both operands are 1, through bits where exactly one is 1
AddValue(a, b) ==
    [k \in 1..W |->
        LET carry == \E j \in (k + 1)..W :
                        /\ a[j] = 1 /\ b[j] = 1
                        /\ \A n \in (k + 1)..(j - 1) : a[n] + b[n] = 1
        IN  (a[k] + b[k] + (IF carry THEN 1 ELSE 0)) % 2]

AddBits(a, b) ==
    CHOOSE r \in { Table(AddValue(av, bv)) : av \in {a}, bv \in {b} } : TRUE

\* a - b for a >= b, exact: the borrow out of bit k comes from the nearest
\* lower bit where a has 0 and b has 1, through bits where they agree
SubValue(a, b) ==
    [k \in 1..W |->
        LET borrow == \E j \in (k + 1)..W :
                         /\ a[j] = 0 /\ b[j] = 1
                         /\ \A n \in (k + 1)..(j - 1) : a[n] = b[n]
        IN  (a[k] - b[k] - (IF borrow THEN 1 ELSE 0) + 2) % 2]

SubBits(a, b) ==
    CHOOSE r \in { Table(SubValue(av, bv)) : av \in {a}, bv \in {b} } : TRUE

\* a < b
BitsLess(a, b) ==
    \E k \in 1..W : a[k] < b[k] /\ \A j \in 1..(k - 1) : a[j] = b[j]

\* the position of the leading 1 (0 for zero)
Lead(a) ==
    IF \A k \in 1..W : a[k] = 0 THEN 0
    ELSE CHOOSE k \in 1..W : a[k] = 1 /\ \A j \in 1..(k - 1) : a[j] = 0

\* round an exact result to MantBits significant bits, ties to even;
\* sticky: the exact result has further non-zero bits beyond position W
RoundValue(a, sticky) ==
    LET h == Lead(a)
        last == h + MantBits - 1
    IN  IF h = 0 \/ last >= W THEN a
        ELSE LET rest == sticky \/ \E k \in (last + 2)..W : a[k] = 1
                 up == a[last + 1] = 1 /\ (rest \/ a[last] = 1)
                 tr == [k \in 1..W |-> IF k <= last THEN a[k] ELSE 0]
                 ulp == [k \in 1..W |-> IF k = last THEN 1 ELSE 0]
             IN  IF up THEN AddBits(tr, ulp) ELSE tr

Round(a, sticky) ==
    CHOOSE r \in { Table(RoundValue(av, sv)) : av \in {a}, sv \in {sticky} } :
        TRUE

\* 2^t mod d
RECURSIVE PowMod2(_, _)
PowMod2(t, d) ==
    IF t = 0 THEN 1 % d
    ELSE LET h == PowMod2(t \div 2, d)
         IN  (h * h * (IF t % 2 = 1 THEN 2 ELSE 1)) % d

\* bit t after the point of r / d, for r < d
DivBit(r, d, t) == (2 * ((r * PowMod2(t - 1, d)) % d)) \div d

\* float(n) / d for integers n >= 0, d > 0
FDivValue(n, d) ==
    Round([k \in 1..W |->
              IF k <= IntBits THEN ((n \div d) \div Pow2(IntBits - k)) % 2
              ELSE DivBit(n % d, d, k - IntBits)],
          ((n % d) * PowMod2(FracBits, d)) % d # 0)

FDiv(n, d) == CHOOSE r \in { FDivValue(nv, dv) : nv \in {n}, dv \in {d} } : TRUE

\* a double that may be negative: only the sign of a negative one matters
\* here, since every minId is >= 0
FSubValue(a, b) ==
    IF a.neg \/ BitsLess(a.m, b)
    THEN [neg |-> TRUE, m |-> IntToBits(0)]
    ELSE [neg |-> FALSE, m |-> Round(SubBits(a.m, b), FALSE)]

FSub(a, b) ==
    CHOOSE r \in { FSubValue(av, bv) : av \in {a}, bv \in {b} } : TRUE

Pos(a) == [neg |-> FALSE, m |-> a]

\* a < b for a signed a and b >= 0
FLess(a, b) == \E av \in {a}, bv \in {b} : av.neg \/ BitsLess(av.m, bv)

\* n * a for an integer n >= 0: the exact product, rounded once
RECURSIVE MulBits(_, _)
MulBits(n, a) ==
    IF n = 0 THEN IntToBits(0) ELSE AddBits(MulBits(n - 1, a), a)

FMulInt(n, a) ==
    CHOOSE r \in { Round(MulBits(n, av), FALSE) : av \in {a} } : TRUE

\* int(math.ceil(a))
RECURSIVE IntPart(_, _)
IntPart(a, k) == IF k = 0 THEN 0 ELSE 2 * IntPart(a, k - 1) + a[k]

CeilValue(a) ==
    IntPart(a, IntBits)
    + (IF \E k \in (IntBits + 1)..W : a[k] = 1 THEN 1 ELSE 0)

Ceil(a) == CHOOSE r \in { CeilValue(av) : av \in {a} } : TRUE

-----------------------------------------------------------------------------
(* Mutator.setupCombos: the sweep over (# mismatches, # read gaps,         *)
(* # ref gaps) and the two sorted lists it leaves behind.                  *)

MaxRdLenBound == 10     \* largest maxRdLen
MinIdDen == 2           \* minId is minIdNum / MinIdDen

One == IntToBits(1)

\* self.minId, a double
MinId == FDiv(minIdNum, MinIdDen)

\* max_edits = int(math.ceil(self.maxRdLen * (1.0 - self.minId)))
max_edits == Ceil(FMulInt(maxRdLen, FSub(Pos(One), MinId).m))

\* the locals id1, id2 and id3 at loop indices ci, cj and ck
id1 == FSub(Pos(One), FDiv(ci, maxRdLen))
id2 == FSub(id1, FDiv(cj, maxRdLen))
id3 == FSub(id2, FDiv(ck, maxRdLen))

\* addCombo((i, j, k)): one entry appended to each list, and the two prefix
\* arrays reset
addCombo(i, j, k) ==
    LET nedit == i + j + k
        sc == ComboScore(i, j, k)
    IN  /\ combos_by_nedit' = Append(combos_by_nedit, <<nedit, sc, i, j, k>>)
        /\ combos_by_score' = Append(combos_by_score, <<sc, nedit, i, j, k>>)
        /\ combos_min_score' = <<>>
        /\ combos_max_score' = <<>>

comboLists == <<combos_by_nedit, combos_by_score,
                combos_min_score, combos_max_score>>

\* for i in xrange(0, max_mms+1): id1 = ...; if id1 < self.minId: break
LoopI ==
    /\ spc = "i"
    /\ IF ci > max_edits \/ FLess(id1, MinId)
       THEN spc' = "sort" /\ UNCHANGED <<ci, cj, ck>>
       ELSE spc' = "j" /\ cj' = 0 /\ UNCHANGED <<ci, ck>>
    /\ UNCHANGED <<minIdNum, maxRdLen, comboLists, sampleVars>>
    /\ UNCHANGED <<goVars, wireVars, pipeVars, checkVars, editVars>>

\* for j in xrange(0, max_rdgaps+1): id2 = ...; if id2 < self.minId: break
LoopJ ==
    /\ spc = "j"
    /\ IF cj > max_edits \/ FLess(id2, MinId)
       THEN spc' = "i" /\ ci' = ci + 1 /\ UNCHANGED <<cj, ck>>
       ELSE spc' = "k" /\ ck' = 0 /\ UNCHANGED <<ci, cj>>
    /\ UNCHANGED <<minIdNum, maxRdLen, comboLists, sampleVars>>
    /\ UNCHANGED <<goVars, wireVars, pipeVars, checkVars, editVars>>

\* for k in xrange(0, max_rfgaps+1): id3 = ...; if id3 < self.minId: break;
\* self.addCombo((i, j, k))
LoopK ==
    /\ spc = "k"
    /\ IF ck > max_edits \/ FLess(id3, MinId)
       THEN /\ spc' = "j" /\ cj' = cj + 1 /\ UNCHANGED <<ci, ck>>
            /\ UNCHANGED comboLists
       ELSE /\ addCombo(ci, cj, ck)
            /\ ck' = ck + 1 /\ UNCHANGED <<spc, ci, cj>>
    /\ UNCHANGED <<minIdNum, maxRdLen, sampleVars>>
    /\ UNCHANGED <<goVars, wireVars, pipeVars, checkVars, editVars>>

\* tuples of integers of one length, compared as Python compares tuples
TupleLess(a, b) ==
    \E p \in 1..Len(a) : a[p] < b[p] /\ \A q \in 1..(p - 1) : a[q] = b[q]

\* list.sort(): entry p goes to the place after every smaller entry and
\* every equal entry that stood before it
SortList(l) ==
    LET place == Table([p \in 1..Len(l) |->
                     1 + Cardinality({ q \in 1..Len(l) :
                             \/ TupleLess(l[q], l[p])
                             \/ l[q] = l[p] /\ q < p })])
    IN  [r \in 1..Len(l) |-> l[CHOOSE p \in 1..Len(l) : place[p] = r]]

\* the running minimum / maximum of the scores of a list sorted by score
PrefixMin(l) == [n \in 1..Len(l) |-> SetMin({ l[m][1] : m \in 1..n })]
PrefixMax(l) == [n \in 1..Len(l) |-> SetMax({ l[m][1] : m \in 1..n })]

\* the two sorts and the loop that fills combos_min_score / combos_max_score
FinishSetup ==
    /\ spc = "sort"
    /\ spc' = "built"
    /\ combos_by_nedit' = SortList(combos_by_nedit)
    /\ LET by_score == SortList(combos_by_score)
       IN  /\ combos_by_score' = by_score
           /\ combos_min_score' = combos_min_score \o PrefixMin(by_score)
           /\ combos_max_score' = combos_max_score \o PrefixMax(by_score)
    /\ UNCHANGED <<minIdNum, maxRdLen, ci, cj, ck, sampleVars>>
    /\ UNCHANGED <<goVars, wireVars, pipeVars, checkVars, editVars>>

\* Mutator.__init__: empty lists, then setupCombos
InitCombos ==
    /\ spc = "i"
    /\ minIdNum \in 0..MinIdDen
    /\ maxRdLen \in 1..MaxRdLenBound
    /\ ci = 0 /\ cj = 0 /\ ck = 0
    /\ combos_by_nedit = <<>> /\ combos_by_score = <<>>
    /\ combos_min_score = <<>> /\ combos_max_score = <<>>
    /\ IdleSample
    /\ IdleGo /\ IdleWire /\ IdlePipe /\ IdleCheck /\ IdleEdits

NextCombos == LoopI \/ LoopJ \/ LoopK \/ FinishSetup

SpecCombos == InitCombos /\ [][NextCombos]_vars

-----------------------------------------------------------------------------
(* Properties of the Combination Index *)

\* the triples (i, j, k) whose identity 1 - (i+j+k)/maxRdLen is >= minId
Admissible ==
    { t \in (0..maxRdLen) \X (0..maxRdLen) \X (0..maxRdLen) :
        MinIdDen * (maxRdLen - (t[1] + t[2] + t[3])) >= minIdNum * maxRdLen }

\* the triples of a list of 5-tuples, whose last three fields are (i, j, k)
TriplesOf(l) == { <<l[p][3], l[p][4], l[p][5]>> : p \in 1..Len(l) }

\* C9: after setupCombos, combos_by_nedit and combos_by_score each hold
\* exactly the triples whose identity is >= minId, each exactly once, and so
\* both hold the zero-edit combo with 0 edits and score 0.
C9_ListsHoldExactlyAdmissible ==
    spc = "built" =>
        /\ TriplesOf(combos_by_nedit) = Admissible
        /\ Len(combos_by_nedit) = Cardinality(Admissible)
        /\ TriplesOf(combos_by_score) = Admissible
        /\ Len(combos_by_score) = Cardinality(Admissible)
        /\ \E p \in 1..Len(combos_by_nedit) :
               combos_by_nedit[p] = <<0, 0, 0, 0, 0>>
        /\ \E p \in 1..Len(combos_by_score) :
               combos_by_score[p] = <<0, 0, 0, 0, 0>>

-----------------------------------------------------------------------------
(* Mutator.mutate: the choice of an edit combo for a read, on the lists    *)
(* that setupCombos built.                                                 *)

MaxSampleLen == 5       \* largest maxRdLen and largest len(rd)

None == -1              \* Python 2 orders None before every integer

Samplings == {"nedit", "score", "other"}

\* bisect.bisect_left(a, key, lo, hi); a[mid] of the code is a[mid + 1] here
RECURSIVE Bisect(_, _, _, _)
Bisect(a, key, lo, hi) ==
    IF lo < hi
    THEN LET mid == (lo + hi) \div 2
         IN  IF TupleLess(a[mid + 1], key) THEN Bisect(a, key, mid + 1, hi)
             ELSE Bisect(a, key, lo, mid)
    ELSE lo

\* a bisection that lands after the entries of key k, not before them
bisect_after(a, k) == Bisect(a, <<k + 1, None, None, None, None>>, 0, Len(a))

\* bisect.bisect_left(a, (k, None, None, None, None))
bisect_left(a, k) == Bisect(a, <<k, None, None, None, None>>, 0, Len(a))

\* max_edits = int(math.ceil(len(rd) * (1.0 - self.minId)))
mutate_max_edits(n) == Ceil(FMulInt(n, FSub(Pos(One), MinId).m))

sampleLocals == <<max_elt, min_sc, max_sc, sc_drawn, sc_m,
                  min_sc_i, min_sc_f, rndi>>

\* mutate(rd): max_edits, max_elt, "assert max_elt > 0", and for the score
\* scheme min_sc and max_sc.  mutate changes nothing of the Mutator, so
\* every call starts from the state setupCombos left: one call is followed.
MutateStart ==
    /\ spc = "built"
    /\ mpc = "idle"
    /\ \E n \in 0..MaxSampleLen :
          LET elt == bisect_left(combos_by_nedit, mutate_max_edits(n) + 1)
          IN  /\ rd_len' = n
              /\ max_elt' = elt
              /\ IF ~(elt > 0)
                 THEN mpc' = "AssertionError" /\ UNCHANGED <<min_sc, max_sc>>
                 ELSE IF sampling = "nedit"
                 THEN mpc' = "pick" /\ UNCHANGED <<min_sc, max_sc>>
                 ELSE IF sampling = "score"
                 THEN IF elt > Len(combos_min_score)
                      THEN /\ mpc' = "IndexError"
                           /\ UNCHANGED <<min_sc, max_sc>>
                      ELSE /\ mpc' = "draw"
                           /\ min_sc' = combos_min_score[elt]
                           /\ max_sc' = combos_max_score[elt]
                 ELSE mpc' = "RuntimeError" /\ UNCHANGED <<min_sc, max_sc>>
    /\ UNCHANGED <<sampling, sc_drawn, sc_m, min_sc_i, min_sc_f, rndi>>
    /\ UNCHANGED <<spc, minIdNum, maxRdLen, ci, cj, ck, comboLists>>
    /\ UNCHANGED <<goVars, wireVars, pipeVars, checkVars, editVars>>

\* sampling == "nedit": combo = self.combos_by_nedit[randint(0, max_elt-1)];
\* return (rd, sc)
PickByNedit ==
    /\ mpc = "pick"
    /\ \E r \in 0..(max_elt - 1) :
          /\ rndi' = r
          /\ sc_m' = combos_by_nedit[r + 1][2]
    /\ mpc' = "returned"
    /\ UNCHANGED <<rd_len, sampling, max_elt, min_sc, max_sc, sc_drawn,
                   min_sc_i, min_sc_f>>
    /\ UNCHANGED <<spc, minIdNum, maxRdLen, ci, cj, ck, comboLists>>
    /\ UNCHANGED <<goVars, wireVars, pipeVars, checkVars, editVars>>

\* one pass of "while not succ" up to the assertions: sc = randint(min_sc,
\* max_sc), the two bisections, the move to the next score that occurs, and
\* the two assertions that follow
DrawScore ==
    /\ mpc = "draw"
    /\ \E d \in min_sc..max_sc :
          LET i1 == bisect_left(combos_by_score, d)
              f1 == bisect_left(combos_by_score, d + 1)
              moved == f1 = i1
              sc2 == IF moved THEN combos_by_score[i1 + 1][1] ELSE d
              i2 == IF moved THEN bisect_left(combos_by_score, sc2) ELSE i1
              f2 == IF moved THEN bisect_left(combos_by_score, sc2 + 1)
                    ELSE f1
          IN  /\ sc_drawn' = d
              /\ IF ~(i1 <= f1)
                 THEN /\ mpc' = "AssertionError"
                      /\ sc_m' = d /\ min_sc_i' = i1 /\ min_sc_f' = f1
                 ELSE IF moved /\ i1 >= Len(combos_by_score)
                 THEN /\ mpc' = "IndexError"
                      /\ sc_m' = d /\ min_sc_i' = i1 /\ min_sc_f' = f1
                 ELSE /\ sc_m' = sc2 /\ min_sc_i' = i2 /\ min_sc_f' = f2
                      /\ mpc' = IF i2 < Len(combos_by_score) /\ f2 > i2
                                THEN "located" ELSE "AssertionError"
    /\ UNCHANGED <<rd_len, sampling, max_elt, min_sc, max_sc, rndi>>
    /\ UNCHANGED <<spc, minIdNum, maxRdLen, ci, cj, ck, comboLists>>
    /\ UNCHANGED <<goVars, wireVars, pipeVars, checkVars, editVars>>

\* rndi = random.randint(min_sc_i, min_sc_f-1);
\* sc, nedit, nmm, nrdg, nrfg = self.combos_by_score[rndi]
PickInRun ==
    /\ mpc = "located"
    /\ \E r \in min_sc_i..(min_sc_f - 1) :
          /\ rndi' = r
          /\ sc_m' = combos_by_score[r + 1][1]
    /\ mpc' = "edits"
    /\ UNCHANGED <<rd_len, sampling, max_elt, min_sc, max_sc, sc_drawn,
                   min_sc_i, min_sc_f>>
    /\ UNCHANGED <<spc, minIdNum, maxRdLen, ci, cj, ck, comboLists>>
    /\ UNCHANGED <<goVars, wireVars, pipeVars, checkVars, editVars>>

\* how the three drawing loops of __addEdits end for combo c =
\* <<sc, nedit, nmm, nrdg, nrfg>> on a read of length n: randint raises on
\* an empty range, and a loop that wants more positions than there are
\* never ends
DrawsEnd(c, n) ==
    IF c[3] > 0 /\ n = 0 THEN "raise"
    ELSE IF c[3] > n THEN "hang"
    ELSE IF c[4] > 0 /\ n = 0 THEN "raise"
    ELSE IF c[4] > n THEN "hang"
    ELSE IF c[5] > 0 /\ n <= 1 THEN "raise"
    ELSE IF c[5] > n - 1 THEN "hang"
    ELSE "ok"

\* mutrd, succ = self.__addEdits(rd, sc, nmm, nrdg, nrfg, ...): success
\* ends mutate, (orig_rd, False) starts the next pass, an exception leaves
\* mutate; a call that never returns takes no step
AddEdits ==
    /\ mpc = "edits"
    /\ \/ /\ DrawsEnd(combos_by_score[rndi + 1], rd_len) = "ok"
          /\ mpc' = "returned"
       \/ /\ DrawsEnd(combos_by_score[rndi + 1], rd_len) = "raise"
          /\ mpc' = "ValueError"
       \/ mpc' = "draw"
    /\ UNCHANGED <<rd_len, sampling, sampleLocals>>
    /\ UNCHANGED <<spc, minIdNum, maxRdLen, ci, cj, ck, comboLists>>
    /\ UNCHANGED <<goVars, wireVars, pipeVars, checkVars, editVars>>

\* Mutator.__init__ with a sampling scheme, then setupCombos
InitSample ==
    /\ spc = "i"
    /\ minIdNum \in 0..MinIdDen
    /\ maxRdLen \in 1..MaxSampleLen
    /\ ci = 0 /\ cj = 0 /\ ck = 0
    /\ combos_by_nedit = <<>> /\ combos_by_score = <<>>
    /\ combos_min_score = <<>> /\ combos_max_score = <<>>
    /\ sampling \in Samplings
    /\ mpc = "idle" /\ rd_len = 0
    /\ max_elt = 0 /\ min_sc = 0 /\ max_sc = 0
    /\ sc_drawn = 0 /\ sc_m = 0
    /\ min_sc_i = 0 /\ min_sc_f = 0 /\ rndi = 0
    /\ IdleGo /\ IdleWire /\ IdlePipe /\ IdleCheck /\ IdleEdits

NextSample ==
    \/ LoopI \/ LoopJ \/ LoopK \/ FinishSetup
    \/ MutateStart \/ PickByNedit \/ DrawScore \/ PickInRun \/ AddEdits

SpecSample == InitSample /\ [][NextSample]_vars

-----------------------------------------------------------------------------
(* Properties of mutate *)

\* the scores that occur in combos_by_score
ScoresOf == { combos_by_score[p][1] : p \in 1..Len(combos_by_score) }

\* C11: in by-score sampling no assertion of mutate fails and no index is
\* out of range; the run [min_sc_i, min_sc_f) that a pass locates is
\* non-empty, lies inside combos_by_score, and all its entries have one
\* score: the drawn score if it occurs, otherwise the smallest occurring
\* score above it, and never more than max_sc.
C11_ScoreRunIsLocated ==
    /\ mpc \notin {"AssertionError", "IndexError"}
    /\ mpc = "located" =>
          /\ min_sc <= sc_drawn /\ sc_drawn <= max_sc
          /\ 0 <= min_sc_i /\ min_sc_i < min_sc_f
          /\ min_sc_f <= Len(combos_by_score)
          /\ \A p \in (min_sc_i + 1)..min_sc_f : combos_by_score[p][1] = sc_m
          /\ sc_m \in ScoresOf
          /\ sc_m >= sc_drawn
          /\ \A v \in ScoresOf : v >= sc_drawn => sc_m <= v
          /\ sc_drawn \in ScoresOf => sc_m = sc_drawn
          /\ sc_m <= max_sc

\* a pass drew a score that no combo has and moved to the next one that occurs
C11_Witness ==
    /\ sampling = "score" /\ mpc = "located"
    /\ sc_drawn \notin ScoresOf /\ sc_m > sc_drawn

\* the number of edits of the combo that mutate selected
SelectedNedit ==
    IF sampling = "nedit" THEN combos_by_nedit[rndi + 1][1]
    ELSE combos_by_score[rndi + 1][2]

\* C12: every combo that mutate selects for a read has at most
\* max_edits = ceil(len(rd) * (1 - minId)) edits, under the by-score scheme
\* as under the by-edit-count scheme.
C12_SelectedWithinBudget ==
    (mpc = "edits" \/ (mpc = "returned" /\ sampling = "nedit")) =>
        SelectedNedit <= mutate_max_edits(rd_len)

-----------------------------------------------------------------------------
(* Properties of the edit pass of __addEdits *)

\* the positions of orig_rd that no edit of the attempt chose
Untouched ==
    { p \in 0..(Len(orig_rd) - 1) : p \notin mmset \cup rdgset \cup rfgset }

\* C13: when an attempt has finished its edit pass, the mutated string has
\* len(orig_rd) - nrdg + nrfg characters, also when a position is both a
\* read gap and a ref gap or a mismatch position is also a gap position, and
\* every slot that no edit chose holds its original character.
C13_EditPassLength ==
    epc = "check" =>
        /\ Len(Join(slist)) = Len(orig_rd) - nrdg + nrfg
        /\ \A p \in Untouched : slist[p + 1] = <<orig_rd[p + 1]>>

\* an attempt finished its pass with one position chosen as mismatch, read
\* gap and ref gap, beside a slot that no edit chose
C13_Witness ==
    /\ epc = "check"
    /\ mmset \cap rdgset \cap rfgset # {}
    /\ Untouched # {}

-----------------------------------------------------------------------------
(* go() with its three parties scheduled fairly: the driver and the        *)
(* collector thread keep running, and the aligner keeps consuming its      *)
(* input, emitting records and closing its output at the end of its input. *)

Fairness ==
    /\ WF_vars(GoStart) /\ WF_vars(GoWrite) /\ WF_vars(GoClose)
    /\ WF_vars(GoJoin) /\ WF_vars(GoCloseSink) /\ WF_vars(GoReport)
    /\ WF_vars(AlignerRecord) /\ WF_vars(AlignerExit)
    /\ WF_vars(RunLine) /\ WF_vars(RunEof)

SpecFair == Spec /\ Fairness

\* every record in the aligner's output carries an AS:i tag if it aligned
WellFormedOutput ==
    \A i \in 1..Len(stdoutQ) : stdoutQ[i].hdr \/ ~Raises(stdoutQ[i])

\* samcheck.join() has returned
JoinReturned == dpc \in {"closeSink", "report", "done", "crashed"}

\* C14: with bounded pipes and an aligner that keeps consuming, emits
\* well-formed records and closes its output after its input is closed,
\* go() never deadlocks: the collector runs before the first read is
\* written, the driver finishes writing and closes the input, the collector
\* reaches end-of-stream, join returns, and by then every record the
\* aligner emitted has been tallied exactly once.
C14_PipelineCompletes ==
    []WellFormedOutput =>
        /\ [](x > 0 => cpc # "idle")
        /\ <>JoinReturned
        /\ [](JoinReturned =>
                /\ x = num_reads /\ stdinClosed
                /\ cpc = "done" /\ stdoutQ = <<>>
                /\ TallySum(res_by_sc, DOMAIN res_by_sc) = nRec)

=============================================================================
